---- MODULE Spec2Model ----
(***************************************************************************)
(* State-machine model of the BD AQI forecast service (src/main.py).       *)
(*                                                                         *)
(* Numbers.  AQI values are modelled as exact rationals <<n, d>> (d > 0,   *)
(* lowest terms); NaN is <<0, 0>>.  Dates are 1-tuples <<day>>, day being    *)
(* the day number within 2023 (1 = 2023-01-01); NaT is <<>>.               *)
(***************************************************************************)
EXTENDS Integers, Sequences, FiniteSets, TLC

\* ------------------------------------------------------------------ bounds
\* Longest sheet drawn from the row menu (free-form part of the input).
MaxRows == 3
\* Longest synthetic daily ramp 1..n offered as a sheet.
MaxRamp == 20
\* The clock runs up to MaxTicks cache lifetimes.
MaxTicks == 1

\* ------------------------------------------------------- program constants
CACHE_SECS == 1800
\* range(1, 8): the rollout emits 7 steps.
HORIZON == 7
\* range(1, 15): lag_1 .. lag_14.
MAX_LAG == 14
ROLL7 == 7
ROLL14 == 14
\* work["AQI"].tail(7)
TAIL == 7

DIVS == <<"Dhaka", "Chattogram", "Sylhet", "Khulna", "Rajshahi", "Barishal",
          "Mymensingh", "Rangpur">>

DivSet == {DIVS[i] : i \in 1..Len(DIVS)}


\* The missing-value markers: a value is a pair <<n, d>> with d > 0, a date
\* is a 1-tuple <<day>>.
NaN == <<0, 0>>

NaT == <<>>

\* --------------------------------------------------------------- rationals
RECURSIVE Gcd(_, _)
Gcd(a, b) ==
    IF b = 0 THEN a ELSE Gcd(b, a % b)

Abs(a) ==
    IF a < 0 THEN -a ELSE a

Rat(n, d) ==
    LET g == Gcd(Abs(n), d) IN <<n \div g, d \div g>>

RInt(n) ==
    <<n, 1>>

\* x + y; NaN when either is NaN, as for floats
RAdd(a, b) ==
    IF a = NaN \/ b = NaN THEN NaN
    ELSE LET g == Gcd(a[2], b[2])
             l == (a[2] \div g) * b[2]
         IN  Rat(a[1] * (l \div a[2]) + b[1] * (l \div b[2]), l)

RSub(a, b) ==
    RAdd(a, <<-b[1], b[2]>>)

\* a * (k / m), k and m integers, m > 0; NaN when a is NaN
RScale(a, k, m) ==
    IF a = NaN THEN NaN
    ELSE LET g == Gcd(Abs(a[1]), m)
             h == Gcd(Abs(k), a[2])
         IN  Rat((a[1] \div g) * (k \div h), (a[2] \div h) * (m \div g))

RECURSIVE RSum(_)
RSum(s) ==
    IF s = <<>> THEN RInt(0) ELSE RAdd(s[1], RSum(Tail(s)))

\* Series.mean() of a NaN-free, non-empty sequence of values.
Mean(s) ==
    RScale(RSum(s), 1, Len(s))

\* ---------------------------------------------------------------- calendar
DaysIn == <<31, 28, 31, 30, 31, 30, 31, 31, 30, 31, 30, 31>>

DaysBefore == <<0, 31, 59, 90, 120, 151, 181, 212, 243, 273, 304, 334>>

\* pd.to_datetime(cell, format='%m/%d/%Y', errors='coerce'); a cell is the
\* text "m/d/y" given as <<m, d, y>>.  Only 2023 is in the model's calendar.
ToDatetime(cell) ==
    IF /\ cell[3] = 2023
       /\ cell[1] \in 1..12
       /\ cell[2] >= 1
       /\ cell[2] <= DaysIn[cell[1]]
    THEN <<DaysBefore[cell[1]] + cell[2]>>
    ELSE NaT

\* pd.to_numeric(cell, errors='coerce'); a cell is <<"num", n>> for the text
\* of the number n and <<"text", 0>> for anything else (e.g. "DNA").
ToNumeric(cell) ==
    IF cell[1] = "num" THEN RInt(cell[2]) ELSE NaN

\* last_date + timedelta(days=k); NaT + timedelta is NaT.
AddDays(date, k) ==
    IF date = NaT THEN NaT ELSE <<date[1] + k>>

\* .dt.dayofweek (Monday = 0; 2023-01-01 is a Sunday), NaN for NaT
DayOfWeek(date) ==
    IF date = NaT THEN NaN ELSE RInt((date[1] + 5) % 7)

\* .dt.month, NaN for NaT
Month(date) ==
    IF date = NaT THEN NaN
    ELSE RInt(CHOOSE m \in 1..12 :
                  /\ DaysBefore[m] < date[1]
                  /\ date[1] <= DaysBefore[m] + DaysIn[m])

\* .dt.dayofyear, NaN for NaT
DayOfYear(date) ==
    IF date = NaT THEN NaN ELSE RInt(date[1])

\* --------------------------------------------------------- load_sheet_clean
\* df['City'].replace({...})
ReplaceCity(c) ==
    CASE c = "Chittagong" -> "Chattogram"
      [] c = "Chittgong"  -> "Chattogram"
      [] c = "Barisal"    -> "Barishal"
      [] OTHER            -> c

\* Order of the division names as strings (the sort key of column City).
CityOrder == <<"Barishal", "Chattogram", "Dhaka", "Khulna", "Mymensingh",
               "Rajshahi", "Rangpur", "Sylhet">>

CityRank(c) ==
    CHOOSE i \in 1..Len(CityOrder) : CityOrder[i] = c

\* a sorts no later than b by Date, NaT last (na_position='last')
DateLE(a, b) ==
    \/ b = NaT
    \/ (a # NaT /\ a[1] <= b[1])

\* a sorts strictly before b by (City, Date)
RowLess(a, b) ==
    \/ CityRank(a.City) < CityRank(b.City)
    \/ (a.City = b.City /\ ~DateLE(b.Date, a.Date))

\* Stable insertion: r goes after every row that does not sort after it.
RECURSIVE InsertRow(_, _)
InsertRow(r, sorted) ==
    IF sorted = <<>> THEN <<r>>
    ELSE IF RowLess(r, sorted[1]) THEN <<r>> \o sorted
    ELSE <<sorted[1]>> \o InsertRow(r, Tail(sorted))

\* df.sort_values(['City','Date']): a stable lexicographic sort.
RECURSIVE SortCityDate(_)
SortCityDate(df) ==
    IF df = <<>> THEN <<>>
    ELSE InsertRow(df[Len(df)], SortCityDate(SubSeq(df, 1, Len(df) - 1)))

\* s.interpolate(limit_direction='both') at row i of the sorted table, within
\* the group of row i's City: linear between the nearest valid neighbours
\* (rows equally spaced), the nearest valid value beyond the ends, NaN when
\* the group has no valid value.
Interpolate(df, i) ==
    LET c    == df[i].City
        prev == {j \in 1..(i - 1) : df[j].City = c /\ df[j].AQI # NaN}
        next == {j \in (i + 1)..Len(df) : df[j].City = c /\ df[j].AQI # NaN}
        p    == CHOOSE j \in prev : \A k \in prev : k <= j
        q    == CHOOSE j \in next : \A k \in next : j <= k
    IN  IF df[i].AQI # NaN THEN df[i].AQI
        ELSE IF prev # {} /\ next # {}
             THEN RAdd(df[p].AQI,
                       RScale(RSub(df[q].AQI, df[p].AQI), i - p, q - p))
        ELSE IF prev # {} THEN df[p].AQI
        ELSE IF next # {} THEN df[q].AQI
        ELSE NaN

\* df.dropna(subset=['AQI']).reset_index(drop=True)
RECURSIVE DropNaAQI(_)
DropNaAQI(df) ==
    IF df = <<>> THEN <<>>
    ELSE IF df[1].AQI = NaN THEN DropNaAQI(Tail(df))
    ELSE <<df[1]>> \o DropNaAQI(Tail(df))

\* df[df['City'].isin(DIVS)] after the alias replacement, cells converted
RECURSIVE ParseRows(_)
ParseRows(raw) ==
    IF raw = <<>> THEN <<>>
    ELSE LET c == ReplaceCity(raw[1].City)
         IN  IF c \in DivSet
             THEN <<[City |-> c, Date |-> ToDatetime(raw[1].Date),
                     AQI |-> ToNumeric(raw[1].AQI)]>> \o ParseRows(Tail(raw))
             ELSE ParseRows(Tail(raw))

\* load_sheet_clean() on the sheet raw, when the fetch succeeds
load_sheet_clean(raw) ==
    LET sorted == SortCityDate(ParseRows(raw))
        filled == [i \in 1..Len(sorted) |->
                      [sorted[i] EXCEPT !.AQI = Interpolate(sorted, i)]]
    IN  DropNaAQI(filled)

\* ------------------------------------------------------------- build_feats
\* df.sort_values('Date') on one key is pandas' default quicksort, which is
\* not stable: rows of equal date may come out in any order.  NaT rows go
\* last, in their original order.  MinIdx is the set of rows that may come
\* first among the rows S still to place.
MinIdx(s, S) ==
    LET valid == {i \in S : s[i].Date # NaT}
    IN  IF valid # {}
        THEN {i \in valid : \A j \in valid : s[i].Date[1] <= s[j].Date[1]}
        ELSE {i \in S : \A j \in S : i <= j}

RECURSIVE SortedIdx(_, _)
SortedIdx(s, S) ==
    IF S = {} THEN {<<>>}
    ELSE UNION {{<<i>> \o r : r \in SortedIdx(s, S \ {i})} : i \in MinIdx(s, S)}

\* every outcome of s.sort_values('Date')
SortsByDate(s) ==
    {[k \in 1..Len(s) |-> s[idx[k]]] : idx \in SortedIdx(s, 1..Len(s))}

LagNames == <<"lag_1", "lag_2", "lag_3", "lag_4", "lag_5", "lag_6", "lag_7",
              "lag_8", "lag_9", "lag_10", "lag_11", "lag_12", "lag_13",
              "lag_14">>

\* Lag with the shift short by one row: shift(L - 1).
LagOffByOne(t, i, L) ==
    IF i - L + 1 >= 1 THEN t[i - L + 1].AQI ELSE NaN

\* work['AQI'].shift(L) at row i
Lag(t, i, L) ==
    IF i - L >= 1 THEN t[i - L].AQI ELSE NaN

\* work['AQI'].shift(1).rolling(w).mean() at row i: the mean of rows
\* i-w .. i-1, NaN unless all w of them exist
Roll(t, i, w) ==
    IF i - w >= 1
    THEN Mean([k \in 1..w |-> t[i - w - 1 + k].AQI])
    ELSE NaN

\* column f of row i of the table build_feats returns, t being the sorted copy
FeatValue(t, i, f) ==
    IF \E L \in 1..MAX_LAG : LagNames[L] = f
    THEN Lag(t, i, CHOOSE L \in 1..MAX_LAG : LagNames[L] = f)
    ELSE CASE f = "roll7"  -> Roll(t, i, ROLL7)
           [] f = "roll14" -> Roll(t, i, ROLL14)
           [] f = "dow"    -> DayOfWeek(t[i].Date)
           [] f = "mon"    -> Month(t[i].Date)
           [] f = "doy"    -> DayOfYear(t[i].Date)

\* build_feats(work): every table it can return, one per outcome of the
\* sort.  A table is given by its sorted rows; its column f at row i is
\* FeatValue(tmp, i, f).
build_feats(work) ==
    SortsByDate(work)

\* tmp.iloc[-1:][FEATURES]: the last row's fields in the order of features
SelectLast(tmp, features) ==
    [k \in 1..Len(features) |->
        [name |-> features[k], value |-> FeatValue(tmp, Len(tmp), features[k])]]

\* The test with all() for any(): x.isna().all(axis=None).
IsNaAll(v) ==
    \A k \in 1..Len(v) : v[k].value = NaN

\* x.isna().any(axis=None)
IsNaAny(v) ==
    \E k \in 1..Len(v) : v[k].value = NaN

\* The fallback without tail(7): float(work["AQI"].mean()).
FallbackOfAll(work) ==
    Mean([k \in 1..Len(work) |-> work[k].AQI])

\* float(work["AQI"].tail(7).mean())
Fallback(work) ==
    LET n == Len(work)
        m == IF n < TAIL THEN n ELSE TAIL
    IN  Mean([k \in 1..m |-> work[n - m + k].AQI])

\* the value of the field called f in the vector v
Field(v, f) ==
    v[CHOOSE k \in 1..Len(v) : v[k].name = f].value

\* model.predict(x)[0] for the stub regressors the model offers: the fitted
\* regressor is opaque to main.py.  "sum_lag1_roll7" reads its fields by
\* name, "first_field" by position.
Regress(kind, v) ==
    CASE kind = "sum_lag1_roll7" -> RAdd(Field(v, "lag_1"), Field(v, "roll7"))
      [] kind = "first_field"    -> v[1].value

\* target_date.date().isoformat(): the text "y-m-d" as <<y, m, d>>; NaT
\* gives the text "NaT", here <<>>
IsoFormat(date) ==
    IF date = NaT THEN <<>>
    ELSE LET m == CHOOSE k \in 1..12 :
                      /\ DaysBefore[k] < date[1]
                      /\ date[1] <= DaysBefore[k] + DaysIn[k]
         IN  <<2023, m, date[1] - DaysBefore[m]>>

\* hist["Date"].max(): NaT are skipped, NaT when there is no valid date
MaxDate(h) ==
    LET valid == {i \in 1..Len(h) : h[i].Date # NaT}
    IN  IF valid = {} THEN NaT
        ELSE h[CHOOSE i \in valid : \A j \in valid : h[j].Date[1] <= h[i].Date[1]].Date

\* df_all[df_all["City"]==division] with the columns Date and AQI
RECURSIVE FilterCity(_, _)
FilterCity(df, c) ==
    IF df = <<>> THEN <<>>
    ELSE IF df[1].City = c
         THEN <<[Date |-> df[1].Date, AQI |-> df[1].AQI]>> \o FilterCity(Tail(df), c)
         ELSE FilterCity(Tail(df), c)

\* ---------------------------------------------------------------- requests
\* The query parameter is a sequence of pieces of text; " " and "\t" are
\* whitespace.  str.strip() drops the whitespace at both ends.
IsSpace(c) ==
    c \in {" ", "\t"}

RECURSIVE LStrip(_)
LStrip(s) ==
    IF s # <<>> /\ IsSpace(s[1]) THEN LStrip(Tail(s)) ELSE s

RECURSIVE RStrip(_)
RStrip(s) ==
    IF s # <<>> /\ IsSpace(s[Len(s)]) THEN RStrip(SubSeq(s, 1, Len(s) - 1)) ELSE s

Strip(s) ==
    RStrip(LStrip(s))

\* division in DIVS, for a text given in pieces
InDivs(s) ==
    Len(s) = 1 /\ s[1] \in DivSet

\* ------------------------------------------------------------------- state
VARIABLES
    sheet,      \* the remote sheet, as read_csv would fetch it now
    files,      \* models/<d>.pkl: division -> [model, features]
    MODELS,     \* division -> regressor
    FEATURES,   \* the one schema main.py keeps
    DATA,       \* _DATA: df is <<>> for None and <<table>> once loaded
    clock,      \* time.time()
    published,  \* every table ever stored in _DATA["df"]
    pc,         \* per request thread: where it is in predict
    query,      \* the division parameter as the request gave it
    division,   \* predict's argument, stripped once validated
    model,      \* MODELS[division]
    now,        \* get_data_cached's local now
    loaded,     \* the table load_sheet_clean returned, not yet stored
    df_all,
    hist,
    last_date,
    work,
    out,
    step,
    outcome,    \* how the request ended: "400", "500", "404", "200", "load_error"
    touched,    \* what the request has done so far: cache reads, refreshes, model calls
    x,          \* the loop's x: the vector of the latest step
    path,       \* per rollout step so far: "model" or "fallback"
    basis       \* the observation rows work held at the steps so far

env == <<sheet, files, MODELS, FEATURES>>

cache == <<DATA, clock, published>>

locals == <<query, division, model, now, loaded, df_all, hist, last_date, work, out, step, outcome, touched, x, path, basis>>

vars == <<env, cache, pc, locals>>

\* --------------------------------------------------------------- the inputs
\* The schema train_baseline.py persists: the lag columns, then the rest.
TrainSchema == LagNames \o <<"roll7", "roll14", "dow", "mon", "doy">>

\* The same fields persisted in another order.
CalendarFirstSchema == <<"dow", "mon", "doy", "roll7", "roll14">> \o LagNames

Schemas == {TrainSchema, CalendarFirstSchema}

Kinds == {"sum_lag1_roll7", "first_field"}

Pkls == [model : Kinds, features : Schemas]

\* A models/ directory holding a file for Dhaka, for Rangpur (the last
\* division of DIVS) or for both.
ModelDirs ==
    UNION {[S -> Pkls] : S \in {{"Dhaka"}, {"Rangpur"}, {"Dhaka", "Rangpur"}}}

\* The directory used with the free-form sheets.
DefaultModels ==
    [d \in {"Dhaka", "Chattogram"} |->
        [model |-> "sum_lag1_roll7", features |-> TrainSchema]]

Row(c, m, d, a) ==
    [City |-> c, Date |-> <<m, d, 2023>>, AQI |-> a]

\* The rows a free-form sheet is made of (a sheet may repeat a row, and so a
\* date): two dates a day apart, one after a gap and with a non-numeric AQI,
\* an unparseable date, an alias and a city that is no division.
RowMenu ==
    { Row("Dhaka", 1, 1, <<"num", 10>>),
      Row("Dhaka", 1, 2, <<"num", 40>>),
      Row("Dhaka", 1, 4, <<"text", 0>>),
      Row("Dhaka", 13, 1, <<"num", 40>>),
      Row("Chittagong", 1, 1, <<"num", 40>>),
      Row("Delhi", 1, 1, <<"num", 10>>) }

SmallSheets ==
    UNION {[1..n -> RowMenu] : n \in 0..MaxRows}

\* Dhaka on n consecutive days from 2023-01-01 with the values 1..n.
Ramp(n) ==
    [i \in 1..n |-> Row("Dhaka", 1, i, <<"num", i>>)]

RampSheets ==
    {Ramp(n) : n \in 1..MaxRamp}

Scenarios ==
    (SmallSheets \X {DefaultModels}) \cup (RampSheets \X ModelDirs)

\* The sheets of the two-thread specification.
ConcSheets ==
    {Ramp(1), Ramp(2)}

DivisionInputs ==
    { <<"Dhaka">>, <<" ", "Dhaka", "\t">>, <<"Chattogram">>, <<"Rangpur">>,
      <<"Sylhet">>, <<"Chittagong">>, <<"dhaka">>, <<"Dha", " ", "ka">>, <<" ">> }

\* The requests of the two-thread specification.
ConcInputs ==
    {<<"Dhaka">>, <<"dhaka">>}

\* ------------------------------------------------------------ module load
\* for d in DIVS: if the file exists, MODELS[d] = obj['model'] and
\* FEATURES = obj['features']: the last file read sets FEATURES.
LoadedModels(dir) ==
    [d \in DOMAIN dir |-> dir[d].model]

LoadedFeatures(dir) ==
    LET have == {i \in 1..Len(DIVS) : DIVS[i] \in DOMAIN dir}
        last == CHOOSE i \in have : \A j \in have : j <= i
    IN  dir[DIVS[last]].features

NoLocals(T) ==
    /\ query = [p \in T |-> <<>>]
    /\ division = [p \in T |-> <<>>]
    /\ model = [p \in T |-> ""]
    /\ now = [p \in T |-> 0]
    /\ loaded = [p \in T |-> <<>>]
    /\ df_all = [p \in T |-> <<>>]
    /\ hist = [p \in T |-> <<>>]
    /\ last_date = [p \in T |-> NaT]
    /\ work = [p \in T |-> <<>>]
    /\ out = [p \in T |-> <<>>]
    /\ step = [p \in T |-> 0]
    /\ outcome = [p \in T |-> ""]
    /\ touched = [p \in T |-> {}]
    /\ x = [p \in T |-> <<>>]
    /\ path = [p \in T |-> <<>>]
    /\ basis = [p \in T |-> {}]

\* The state once main.py is imported (it raises when models/ is empty, so
\* a serving process has at least one model).
InitWith(T, scenarios) ==
    /\ \E sc \in scenarios :
          /\ sheet = sc[1]
          /\ files = sc[2]
          /\ MODELS = LoadedModels(sc[2])
          /\ FEATURES = LoadedFeatures(sc[2])
    /\ DATA = [df |-> <<>>, ts |-> 0]
    /\ clock = 0
    /\ published = {}
    /\ pc = [p \in T |-> "idle"]
    /\ NoLocals(T)

Init ==
    InitWith({1}, Scenarios)

\* ----------------------------------------------------------------- actions
\* The request ends with outcome o.
Ends(p, o) ==
    /\ pc' = [pc EXCEPT ![p] = "done"]
    /\ outcome' = [outcome EXCEPT ![p] = o]

\* predict without division.strip().
PredictUntrimmed(p, d) ==
    /\ pc[p] = "idle"
    /\ query' = [query EXCEPT ![p] = d]
    /\ division' = [division EXCEPT ![p] = d]
    /\ IF ~InDivs(d)
       THEN Ends(p, "400") /\ UNCHANGED model
       ELSE IF d[1] \notin DOMAIN MODELS
       THEN Ends(p, "500") /\ UNCHANGED model
       ELSE /\ model' = [model EXCEPT ![p] = MODELS[d[1]]]
            /\ pc' = [pc EXCEPT ![p] = "cache_check"]
            /\ UNCHANGED outcome
    /\ UNCHANGED <<env, cache, now, loaded, df_all, hist, last_date, work, out,
                   step, touched, x, path, basis>>

\* predict(division), up to model = MODELS[division]
Predict(p, d) ==
    /\ pc[p] = "idle"
    /\ query' = [query EXCEPT ![p] = d]
    /\ LET name == Strip(d)
       IN  /\ division' = [division EXCEPT ![p] = name]
           /\ IF ~InDivs(name)
              THEN Ends(p, "400") /\ UNCHANGED model
              ELSE IF name[1] \notin DOMAIN MODELS
              THEN Ends(p, "500") /\ UNCHANGED model
              ELSE /\ model' = [model EXCEPT ![p] = MODELS[name[1]]]
                   /\ pc' = [pc EXCEPT ![p] = "cache_check"]
                   /\ UNCHANGED outcome
    /\ UNCHANGED <<env, cache, now, loaded, df_all, hist, last_date, work, out,
                   step, touched, x, path, basis>>

\* get_data_cached: now = time.time(); the test of the cache
CacheCheck(p) ==
    /\ pc[p] = "cache_check"
    /\ now' = [now EXCEPT ![p] = clock]
    /\ touched' = [touched EXCEPT ![p] = @ \cup {"cache_read"}]
    /\ pc' = [pc EXCEPT ![p] =
                 IF DATA.df = <<>> \/ clock - DATA.ts > CACHE_SECS
                 THEN "load" ELSE "cache_return"]
    /\ UNCHANGED <<env, cache, query, division, model, loaded, df_all, hist, last_date,
                   work, out, step, outcome, x, path, basis>>

\* load_sheet_clean() returns the cleaned sheet
Load(p) ==
    /\ pc[p] = "load"
    /\ loaded' = [loaded EXCEPT ![p] = load_sheet_clean(sheet)]
    /\ pc' = [pc EXCEPT ![p] = "store_df"]
    /\ UNCHANGED <<env, cache, query, division, model, now, df_all, hist, last_date,
                   work, out, step, outcome, touched, x, path, basis>>

\* load_sheet_clean() raises (SHEET_CSV_URL not set, or read_csv fails): the
\* exception leaves predict
LoadFail(p) ==
    /\ pc[p] = "load"
    /\ Ends(p, "load_error")
    /\ UNCHANGED <<env, cache, query, division, model, now, loaded, df_all, hist,
                   last_date, work, out, step, touched, x, path, basis>>

\* _DATA["df"] = <the loaded table>
StoreDf(p) ==
    /\ pc[p] = "store_df"
    /\ DATA' = [DATA EXCEPT !.df = <<loaded[p]>>]
    /\ published' = published \cup {loaded[p]}
    /\ touched' = [touched EXCEPT ![p] = @ \cup {"cache_refresh"}]
    /\ pc' = [pc EXCEPT ![p] = "store_ts"]
    /\ UNCHANGED <<env, clock, query, division, model, now, loaded, df_all, hist,
                   last_date, work, out, step, outcome, x, path, basis>>

\* _DATA["ts"] = now
StoreTs(p) ==
    /\ pc[p] = "store_ts"
    /\ DATA' = [DATA EXCEPT !.ts = now[p]]
    /\ pc' = [pc EXCEPT ![p] = "cache_return"]
    /\ UNCHANGED <<env, clock, published, locals>>

\* return _DATA["df"], bound to df_all
CacheReturn(p) ==
    /\ pc[p] = "cache_return"
    /\ df_all' = [df_all EXCEPT ![p] = DATA.df[1]]
    /\ pc' = [pc EXCEPT ![p] = "hist"]
    /\ UNCHANGED <<env, cache, query, division, model, now, loaded, hist, last_date,
                   work, out, step, outcome, touched, x, path, basis>>

\* hist = ...sort_values("Date")...; 404 when empty; last_date, work, out
Hist(p) ==
    /\ pc[p] = "hist"
    /\ \E h \in SortsByDate(FilterCity(df_all[p], division[p][1])) :
          /\ hist' = [hist EXCEPT ![p] = h]
          /\ IF h = <<>>
             THEN /\ Ends(p, "404")
                  /\ UNCHANGED <<last_date, work, out, step>>
             ELSE /\ last_date' = [last_date EXCEPT ![p] = MaxDate(h)]
                  /\ work' = [work EXCEPT ![p] = h]
                  /\ out' = [out EXCEPT ![p] = <<>>]
                  /\ step' = [step EXCEPT ![p] = 1]
                  /\ pc' = [pc EXCEPT ![p] = "rollout"]
                  /\ UNCHANGED outcome
    /\ UNCHANGED <<env, cache, query, division, model, now, loaded, df_all, touched, x, path, basis>>

\* The loop body reading the observations from _DATA["df"] again at every
\* step instead of keeping the copy made before the loop.
RolloutStepRereading(p) ==
    /\ pc[p] = "rollout"
    /\ step[p] <= HORIZON
    /\ \E fresh \in SortsByDate(FilterCity(DATA.df[1], division[p][1])) :
          LET w == fresh \o SubSeq(work[p], Len(work[p]) - (step[p] - 1) + 1, Len(work[p]))
          IN  \E tmp \in build_feats(w) :
                 LET target_date == AddDays(last_date[p], step[p])
                     xv   == SelectLast(tmp, FEATURES)
                     na   == IsNaAny(xv)
                     pred == IF na THEN Fallback(w) ELSE Regress(model[p], xv)
                 IN  /\ x' = [x EXCEPT ![p] = xv]
                     /\ out' = [out EXCEPT ![p] =
                                   Append(@, [date |-> IsoFormat(target_date),
                                              predicted_aqi |-> pred])]
                     /\ work' = [work EXCEPT ![p] =
                                    Append(w, [Date |-> target_date, AQI |-> pred])]
                     /\ touched' = [touched EXCEPT ![p] =
                                       IF na THEN @ ELSE @ \cup {"model_call"}]
                     /\ path' = [path EXCEPT ![p] =
                                    Append(@, IF na THEN "fallback" ELSE "model")]
                     /\ basis' = [basis EXCEPT ![p] = @ \cup {fresh}]
    /\ step' = [step EXCEPT ![p] = @ + 1]
    /\ UNCHANGED <<env, cache, pc, query, division, model, now, loaded, df_all, hist,
                   last_date, outcome>>

\* one pass of the loop body, for step in range(1, 8)
RolloutStep(p) ==
    /\ pc[p] = "rollout"
    /\ step[p] <= HORIZON
    /\ \E tmp \in build_feats(work[p]) :
          LET target_date == AddDays(last_date[p], step[p])
              xv   == SelectLast(tmp, FEATURES)
              na   == IsNaAny(xv)
              pred == IF na THEN Fallback(work[p]) ELSE Regress(model[p], xv)
          IN  /\ x' = [x EXCEPT ![p] = xv]
              /\ out' = [out EXCEPT ![p] =
                            Append(@, [date |-> IsoFormat(target_date),
                                       predicted_aqi |-> pred])]
              /\ work' = [work EXCEPT ![p] =
                             Append(@, [Date |-> target_date, AQI |-> pred])]
              /\ touched' = [touched EXCEPT ![p] =
                                IF na THEN @ ELSE @ \cup {"model_call"}]
              /\ path' = [path EXCEPT ![p] =
                             Append(@, IF na THEN "fallback" ELSE "model")]
    /\ basis' = [basis EXCEPT ![p] =
                    @ \cup {SubSeq(work[p], 1, Len(work[p]) - (step[p] - 1))}]
    /\ step' = [step EXCEPT ![p] = @ + 1]
    /\ UNCHANGED <<env, cache, pc, query, division, model, now, loaded, df_all, hist,
                   last_date, outcome>>

\* return {"division": ..., "forecast_days": 7, "predictions": out}
Return(p) ==
    /\ pc[p] = "rollout"
    /\ step[p] > HORIZON
    /\ Ends(p, "200")
    /\ UNCHANGED <<env, cache, query, division, model, now, loaded, df_all, hist,
                   last_date, work, out, step, touched, x, path, basis>>

\* The response is sent; the thread is free for the next request.
Finish(p) ==
    /\ pc[p] = "done"
    /\ pc' = [pc EXCEPT ![p] = "idle"]
    /\ query' = [query EXCEPT ![p] = <<>>]
    /\ division' = [division EXCEPT ![p] = <<>>]
    /\ model' = [model EXCEPT ![p] = ""]
    /\ now' = [now EXCEPT ![p] = 0]
    /\ loaded' = [loaded EXCEPT ![p] = <<>>]
    /\ df_all' = [df_all EXCEPT ![p] = <<>>]
    /\ hist' = [hist EXCEPT ![p] = <<>>]
    /\ last_date' = [last_date EXCEPT ![p] = NaT]
    /\ work' = [work EXCEPT ![p] = <<>>]
    /\ out' = [out EXCEPT ![p] = <<>>]
    /\ step' = [step EXCEPT ![p] = 0]
    /\ outcome' = [outcome EXCEPT ![p] = ""]
    /\ touched' = [touched EXCEPT ![p] = {}]
    /\ x' = [x EXCEPT ![p] = <<>>]
    /\ path' = [path EXCEPT ![p] = <<>>]
    /\ basis' = [basis EXCEPT ![p] = {}]
    /\ UNCHANGED <<env, cache>>

\* Time passes: just over a cache lifetime.
Tick ==
    /\ clock + CACHE_SECS + 1 <= MaxTicks * (CACHE_SECS + 1)
    /\ clock' = clock + CACHE_SECS + 1
    /\ UNCHANGED <<env, DATA, published, pc, locals>>

\* The sheet is edited upstream: rows are added.
SheetChange ==
    /\ \E sh \in ConcSheets : Len(sh) > Len(sheet) /\ sheet' = sh
    /\ UNCHANGED <<files, MODELS, FEATURES, cache, pc, locals>>

\* A step of some request thread.
Requests(inputs) ==
    \/ \E p \in DOMAIN pc, d \in inputs : Predict(p, d)
    \/ \E p \in DOMAIN pc : CacheCheck(p)
    \/ \E p \in DOMAIN pc : Load(p)
    \/ \E p \in DOMAIN pc : LoadFail(p)
    \/ \E p \in DOMAIN pc : StoreDf(p)
    \/ \E p \in DOMAIN pc : StoreTs(p)
    \/ \E p \in DOMAIN pc : CacheReturn(p)
    \/ \E p \in DOMAIN pc : Hist(p)
    \/ \E p \in DOMAIN pc : RolloutStep(p)
    \/ \E p \in DOMAIN pc : Return(p)
    \/ \E p \in DOMAIN pc : Finish(p)

\* One request thread, every sheet and models/ directory of Scenarios, the
\* sheet and the clock standing still.
Next ==
    Requests(DivisionInputs)

Spec ==
    Init /\ [][Next]_vars

\* Two request threads of the server's thread pool, the clock running and
\* the sheet changing under them.
InitConc ==
    InitWith({1, 2}, ConcSheets \X {DefaultModels})

NextConc ==
    \/ Requests(ConcInputs)
    \/ Tick
    \/ SheetChange

SpecConc ==
    InitConc /\ [][NextConc]_vars

\* ------------------------------------------------------------- properties
\* The request of thread p is in its rollout or has returned its forecast.
Rolling(p) ==
    \/ pc[p] = "rollout"
    \/ (pc[p] = "done" /\ outcome[p] = "200")

\* The dates of h are valid and strictly increasing.
StrictlyIncreasing(h) ==
    /\ \A i \in 1..Len(h) : h[i].Date # NaT
    /\ \A i \in 1..(Len(h) - 1) : h[i].Date[1] < h[i + 1].Date[1]

\* The values under step k of thread p: the observations of hist, then the
\* predictions emitted before step k.
ValuesBefore(p, k) ==
    [i \in 1..(Len(hist[p]) + k - 1) |->
        IF i <= Len(hist[p]) THEN hist[p][i].AQI
        ELSE out[p][i - Len(hist[p])].predicted_aqi]

\* The last m entries of the sequence s.
LastOf(s, m) ==
    [i \in 1..m |-> s[Len(s) - m + i]]

\* C1: at every step k >= 2 of a rollout, the lag_1 feature of the vector
\* used at step k equals the prediction emitted at step k-1.
C1_Compounding ==
    \A p \in DOMAIN pc :
        (Rolling(p) /\ Len(out[p]) >= 2)
            => Field(x[p], "lag_1") = out[p][Len(out[p]) - 1].predicted_aqi

\* C2: for the values 1..20 on 20 consecutive days and the stub regressor
\* lag_1 + roll7, the step-1 prediction is 20 + mean(values[13..19]), the
\* positions counted from 0.
C2_FullFeaturePath ==
    \A p \in DOMAIN pc :
        ( /\ Rolling(p)
          /\ Len(out[p]) >= 1
          /\ model[p] = "sum_lag1_roll7"
          /\ hist[p] = [i \in 1..20 |-> [Date |-> <<i>>, AQI |-> RInt(i)]] )
            => out[p][1].predicted_aqi
                   = RAdd(RInt(20), Mean([k \in 1..7 |-> hist[p][13 + k].AQI]))

\* C3: a successful predict returns exactly 7 points and the k-th is dated
\* last_date + k days, last_date being the latest date of the input series.
C3_HorizonDates ==
    \A p \in DOMAIN pc :
        (pc[p] = "done" /\ outcome[p] = "200")
            => /\ Len(out[p]) = 7
               /\ \E i \in 1..Len(hist[p]) :
                     /\ hist[p][i].Date # NaT
                     /\ \A j \in 1..Len(hist[p]) :
                           hist[p][j].Date # NaT
                               => hist[p][j].Date[1] <= hist[p][i].Date[1]
                     /\ \A k \in 1..7 :
                           out[p][k].date = IsoFormat(<<hist[p][i].Date[1] + k>>)

\* C4: a step that falls back predicts the mean of the last 7 values under
\* it (all of them when fewer), the earlier predictions of the rollout
\* included; with 5 observations step 1 predicts the mean of the 5.
C4_FallbackValue ==
    \A p \in DOMAIN pc :
        Rolling(p)
            => /\ \A k \in 1..Len(out[p]) :
                     path[p][k] = "fallback"
                         => LET v == ValuesBefore(p, k)
                                m == IF Len(v) < 7 THEN Len(v) ELSE 7
                            IN  out[p][k].predicted_aqi = Mean(LastOf(v, m))
               /\ (Len(hist[p]) = 5 /\ Len(out[p]) >= 1)
                     => out[p][1].predicted_aqi
                            = Mean([i \in 1..5 |-> hist[p][i].AQI])

\* A 5-observation rollout whose third step fell back: its window holds two
\* earlier predictions.
C4_Witness ==
    \E p \in DOMAIN pc :
        /\ Rolling(p)
        /\ Len(hist[p]) = 5
        /\ Len(out[p]) >= 3
        /\ path[p][3] = "fallback"

\* The observation of h dated exactly L days before h's last date, NaN
\* when there is none.
CalendarLag(h, L) ==
    LET ref  == h[Len(h)].Date[1]
        hits == {i \in 1..(Len(h) - 1) : h[i].Date[1] = ref - L}
    IN  IF hits = {} THEN NaN ELSE h[CHOOSE i \in hits : TRUE].AQI

\* Thread p has just taken step 1 on a series of strictly increasing dates:
\* x[p] is the vector built from hist[p].
FirstStepTaken(p) ==
    /\ pc[p] = "rollout"
    /\ Len(out[p]) = 1
    /\ StrictlyIncreasing(hist[p])

\* C5 as stated: lag_L is the value observed exactly L calendar days before
\* the reference date, missing when there is no such observation.
C5_LagIsCalendarDays ==
    \A p \in DOMAIN pc :
        FirstStepTaken(p)
            => \A L \in 1..14 :
                   Field(x[p], LagNames[L]) = CalendarLag(hist[p], L)

\* C5 as amended: lag_L is the value of the observation L places before the
\* last one in date order, missing when fewer than L observations precede
\* it; that is the observation of L calendar days earlier exactly when that
\* observation is dated so (e.g. when the series has no gap).
C5_LagIsPositional ==
    \A p \in DOMAIN pc :
        FirstStepTaken(p)
            => \A L \in 1..14 :
                   LET n == Len(hist[p])
                   IN  /\ Field(x[p], LagNames[L])
                              = IF n - L >= 1 THEN hist[p][n - L].AQI ELSE NaN
                       /\ (n - L >= 1 /\ hist[p][n - L].Date[1] = hist[p][n].Date[1] - L)
                              => Field(x[p], LagNames[L]) = CalendarLag(hist[p], L)

\* Step 1 was taken on a series of at least 3 observations with a gap.
C5_Witness ==
    \E p \in DOMAIN pc :
        /\ FirstStepTaken(p)
        /\ Len(hist[p]) >= 3
        /\ \E i \in 1..(Len(hist[p]) - 1) :
              hist[p][i + 1].Date[1] - hist[p][i].Date[1] > 1

\* The text q is a division name with whitespace around it, and which one.
Recognized(q) ==
    \E k \in 1..Len(q) :
        /\ q[k] \in DivSet
        /\ \A j \in 1..Len(q) : j # k => IsSpace(q[j])

NameOf(q) ==
    q[CHOOSE k \in 1..Len(q) : q[k] \in DivSet]

\* The snapshot the request read holds no observation of division d.
NoDataFor(p, d) ==
    \A i \in 1..Len(df_all[p]) : df_all[p][i].City # d

\* What the precedence of C6 fixes for a finished request.
FourOutcomes(p) ==
    IF ~Recognized(query[p])
    THEN outcome[p] = "400" /\ touched[p] = {}
    ELSE IF NameOf(query[p]) \notin DOMAIN MODELS
    THEN outcome[p] = "500"
    ELSE IF NoDataFor(p, NameOf(query[p]))
    THEN outcome[p] = "404"
    ELSE outcome[p] = "200" /\ Len(out[p]) = 7

\* C6 as stated: every request ends in one of four outcomes by the
\* precedence validation error, configuration error, no data, 7 points; a
\* request rejected by validation touched neither the cache nor a model.
C6_FourOutcomes ==
    \A p \in DOMAIN pc :
        pc[p] = "done" => FourOutcomes(p)

\* C6 as amended: a request for a recognized division with a model may also
\* end in the error of a failed sheet load, raised by the cache refresh
\* before any data is read; every other request ends as the precedence says.
C6_Outcomes ==
    \A p \in DOMAIN pc :
        pc[p] = "done"
            => IF outcome[p] = "load_error"
               THEN /\ Recognized(query[p])
                    /\ NameOf(query[p]) \in DOMAIN MODELS
                    /\ touched[p] = {"cache_read"}
                    /\ out[p] = <<>>
               ELSE FourOutcomes(p)

\* A request whose parameter needed trimming passed validation and the
\* model check, and ended with "no data".
C6_Witness ==
    \E p \in DOMAIN pc :
        /\ pc[p] = "done"
        /\ outcome[p] = "404"
        /\ query[p] # division[p]

\* C7: the series predict hands to the rollout has valid, strictly
\* increasing dates: no date repeats and none is missing.
C7_StrictlyIncreasingDates ==
    \A p \in DOMAIN pc :
        pc[p] = "rollout" => StrictlyIncreasing(hist[p])

\* C8: every step of a rollout works on the observations of one snapshot,
\* the one the request read, which is a table that was published whole.
C8_OneSnapshot ==
    \A p \in DOMAIN pc :
        Rolling(p)
            => /\ df_all[p] \in published
               /\ hist[p] \in SortsByDate(FilterCity(df_all[p], division[p][1]))
               /\ basis[p] \subseteq {hist[p]}
               /\ SubSeq(work[p], 1, Len(hist[p])) = hist[p]

\* A rollout is under way and the cache no longer holds the snapshot it
\* read.
C8_Witness ==
    \E p \in DOMAIN pc :
        /\ pc[p] = "rollout"
        /\ Len(out[p]) >= 1
        /\ step[p] <= HORIZON
        /\ DATA.df # <<df_all[p]>>

\* C9: the vector passed to a division's regressor has its fields in the
\* order of the schema stored in that division's model file.
C9_SchemaOfDivision ==
    \A p \in DOMAIN pc :
        (Rolling(p) /\ Len(path[p]) >= 1 /\ path[p][Len(path[p])] = "model")
            => [k \in 1..Len(x[p]) |-> x[p][k].name]
                   = files[division[p][1]].features

\* C10: on a series of n distinct valid dates, step k calls the regressor
\* exactly when n + k - 1 >= 15, so the steps that fall back come first.
C10_RegressorIffFifteen ==
    \A p \in DOMAIN pc :
        (Rolling(p) /\ StrictlyIncreasing(hist[p]))
            => /\ \A k \in 1..Len(path[p]) :
                     path[p][k] = "model" <=> Len(hist[p]) + k - 1 >= 15
               /\ \A k \in 1..Len(path[p]) : \A j \in 1..k :
                     path[p][j] = "model" => path[p][k] = "model"

\* A finished rollout that began with the fallback and ended with the
\* regressor.
C10_Witness ==
    \E p \in DOMAIN pc :
        /\ Rolling(p)
        /\ StrictlyIncreasing(hist[p])
        /\ Len(path[p]) = 7
        /\ path[p][1] = "fallback"
        /\ path[p][7] = "model"

====
